---- MODULE Spec2Model ----
(***************************************************************************)
(* Model of scripts/generate_icon.py: the squircle mask generator, the     *)
(* icon compositor (create_icon) and the two output writers driven by      *)
(* main (generate_legacy_appiconset, create_icon_bundle).                  *)
(*                                                                         *)
(* Three specifications share the module:                                  *)
(*   SpecMask  create_squircle_mask applied to bounded inputs              *)
(*   SpecIcon  create_icon, step by step, on bounded sizes                 *)
(*   Spec      main: the filesystem run, with failures and re-runs         *)
(***************************************************************************)
EXTENDS Integers, Sequences, FiniteSets, TLC

\* ---------------------------------------------------------------- bounds
MaxMaskSize == 14
MaxIconSize == 17
MaxRuns == 2

\* ------------------------------------------------------------- constants
steps == 360
Scale == 1000000
Threshold == 128
MinIconSize == 16
DefaultFontSize == 10
ImplicitOpacity == 1

\* 0.9 * |cos(2*pi*i/steps)|^(2/n) * sign, for n = 4, as computed in IEEE
\* doubles by lines 31-36, scaled by Scale and floored (entry i+1 is step i).
\* Step 270 keeps the negative sign the double cos(3*pi/2) = -1.8e-16 has.
CosTab ==
  << 900000, 899931, 899725, 899383, 898903, 898285, 897531, 896639, 895609, 894442,
     893137, 891693, 890112, 888391, 886532, 884533, 882395, 880117, 877699, 875140,
     872439, 869597, 866613, 863486, 860216, 856801, 853242, 849538, 845687, 841689,
     837544, 833249, 828805, 824210, 819463, 814563, 809508, 804297, 798929, 793402,
     787715, 781866, 775852, 769672, 763325, 756806, 750115, 743248, 736203, 728977,
     721566, 713967, 706176, 698190, 690004, 681613, 673012, 664196, 655159, 645895,
     636396, 626654, 616661, 606409, 595886, 585081, 573983, 562576, 550846, 538774,
     526342, 513527, 500303, 486642, 472510, 457868, 442670, 426861, 410376, 393135,
     375040, 355966, 335753, 314188, 290977, 265699, 237703, 205893, 168132, 118896,
     0, -118897, -168133, -205894, -237704, -265700, -290978, -314189, -335754, -355967,
     -375041, -393136, -410377, -426862, -442671, -457869, -472511, -486643, -500304, -513528,
     -526343, -538775, -550847, -562577, -573984, -585082, -595887, -606410, -616662, -626655,
     -636397, -645896, -655160, -664197, -673013, -681614, -690005, -698191, -706177, -713968,
     -721567, -728978, -736204, -743249, -750116, -756807, -763326, -769673, -775853, -781867,
     -787716, -793403, -798930, -804298, -809509, -814564, -819464, -824211, -828806, -833250,
     -837545, -841690, -845688, -849539, -853243, -856802, -860217, -863487, -866614, -869598,
     -872440, -875141, -877700, -880118, -882396, -884534, -886533, -888392, -890113, -891694,
     -893138, -894443, -895610, -896640, -897532, -898286, -898904, -899384, -899726, -899932,
     -900000, -899932, -899726, -899384, -898904, -898286, -897532, -896640, -895610, -894443,
     -893138, -891694, -890113, -888392, -886533, -884534, -882396, -880118, -877700, -875141,
     -872440, -869598, -866614, -863487, -860217, -856802, -853243, -849539, -845688, -841690,
     -837545, -833250, -828806, -824211, -819464, -814564, -809509, -804298, -798930, -793403,
     -787716, -781867, -775853, -769673, -763326, -756807, -750116, -743249, -736204, -728978,
     -721567, -713968, -706177, -698191, -690005, -681614, -673013, -664197, -655160, -645896,
     -636397, -626655, -616662, -606410, -595887, -585082, -573984, -562577, -550847, -538775,
     -526343, -513528, -500304, -486643, -472511, -457869, -442671, -426862, -410377, -393136,
     -375041, -355967, -335754, -314189, -290978, -265700, -237704, -205894, -168133, -118897,
     -1, 118896, 168132, 205893, 237703, 265699, 290977, 314188, 335753, 355966,
     375040, 393135, 410376, 426861, 442670, 457868, 472510, 486642, 500303, 513527,
     526342, 538774, 550846, 562576, 573983, 585081, 595886, 606409, 616661, 626654,
     636396, 645895, 655159, 664196, 673012, 681613, 690004, 698190, 706176, 713967,
     721566, 728977, 736203, 743248, 750115, 756806, 763325, 769672, 775852, 781866,
     787715, 793402, 798929, 804297, 809508, 814563, 819463, 824210, 828805, 833249,
     837544, 841689, 845687, 849538, 853242, 856801, 860216, 863486, 866613, 869597,
     872439, 875140, 877699, 880117, 882395, 884533, 886532, 888391, 890112, 891693,
     893137, 894442, 895609, 896639, 897531, 898285, 898903, 899383, 899725, 899931 >>

SinTab ==
  << 0, 118896, 168132, 205893, 237703, 265699, 290977, 314188, 335753, 355966,
     375040, 393135, 410376, 426861, 442670, 457868, 472510, 486642, 500303, 513527,
     526342, 538774, 550846, 562576, 573983, 585081, 595886, 606409, 616661, 626654,
     636396, 645895, 655159, 664196, 673012, 681613, 690004, 698190, 706176, 713967,
     721566, 728977, 736203, 743248, 750115, 756806, 763325, 769672, 775852, 781866,
     787715, 793402, 798929, 804297, 809508, 814563, 819463, 824210, 828805, 833249,
     837544, 841689, 845687, 849538, 853242, 856801, 860216, 863486, 866613, 869597,
     872439, 875140, 877699, 880117, 882395, 884533, 886532, 888391, 890112, 891693,
     893137, 894442, 895609, 896639, 897531, 898285, 898903, 899383, 899725, 899931,
     900000, 899931, 899725, 899383, 898903, 898285, 897531, 896639, 895609, 894442,
     893137, 891693, 890112, 888391, 886532, 884533, 882395, 880117, 877699, 875140,
     872439, 869597, 866613, 863486, 860216, 856801, 853242, 849538, 845687, 841689,
     837544, 833249, 828805, 824210, 819463, 814563, 809508, 804297, 798929, 793402,
     787715, 781866, 775852, 769672, 763325, 756806, 750115, 743248, 736203, 728977,
     721566, 713967, 706176, 698190, 690004, 681613, 673012, 664196, 655159, 645895,
     636396, 626654, 616661, 606409, 595886, 585081, 573983, 562576, 550846, 538774,
     526342, 513527, 500303, 486642, 472510, 457868, 442670, 426861, 410376, 393135,
     375040, 355966, 335753, 314188, 290977, 265699, 237703, 205893, 168132, 118896,
     0, -118897, -168133, -205894, -237704, -265700, -290978, -314189, -335754, -355967,
     -375041, -393136, -410377, -426862, -442671, -457869, -472511, -486643, -500304, -513528,
     -526343, -538775, -550847, -562577, -573984, -585082, -595887, -606410, -616662, -626655,
     -636397, -645896, -655160, -664197, -673013, -681614, -690005, -698191, -706177, -713968,
     -721567, -728978, -736204, -743249, -750116, -756807, -763326, -769673, -775853, -781867,
     -787716, -793403, -798930, -804298, -809509, -814564, -819464, -824211, -828806, -833250,
     -837545, -841690, -845688, -849539, -853243, -856802, -860217, -863487, -866614, -869598,
     -872440, -875141, -877700, -880118, -882396, -884534, -886533, -888392, -890113, -891694,
     -893138, -894443, -895610, -896640, -897532, -898286, -898904, -899384, -899726, -899932,
     -900000, -899932, -899726, -899384, -898904, -898286, -897532, -896640, -895610, -894443,
     -893138, -891694, -890113, -888392, -886533, -884534, -882396, -880118, -877700, -875141,
     -872440, -869598, -866614, -863487, -860217, -856802, -853243, -849539, -845688, -841690,
     -837545, -833250, -828806, -824211, -819464, -814564, -809509, -804298, -798930, -793403,
     -787716, -781867, -775853, -769673, -763326, -756807, -750116, -743249, -736204, -728978,
     -721567, -713968, -706177, -698191, -690005, -681614, -673013, -664197, -655160, -645896,
     -636397, -626655, -616662, -606410, -595887, -585082, -573984, -562577, -550847, -538775,
     -526343, -513528, -500304, -486643, -472511, -457869, -442671, -426862, -410377, -393136,
     -375041, -355967, -335754, -314189, -290978, -265700, -237704, -205894, -168133, -118897 >>

VARIABLES
  \* create_squircle_mask applied as a pure function
  mpc, msize, mradius_factor, mradius, mmask,
  \* create_icon
  ipc, size, dark_mode, resolvable, squircle, img, font, font_idx, tried,
  iout, glyph,
  \* main: the run, the three output directories and what the run did
  pc, run, error, completed, dirs, legacy, todel, row, images, written, deleted,
  icon_dir, assets, bwritten, root

maskVars == <<mpc, msize, mradius_factor, mradius, mmask>>
iconVars == <<ipc, size, dark_mode, resolvable, squircle, img, font, font_idx,
              tried, iout, glyph>>
fsVars == <<dirs, legacy, icon_dir, assets, root>>
mainVars == <<pc, run, error, completed, todel, row, images, written, deleted, bwritten,
              fsVars>>
vars == <<maskVars, iconVars, mainVars>>

\* ------------------------------------------------- create_squircle_mask
Pixels(s) == (0 .. s - 1) \X (0 .. s - 1)

\* the polygon drawn without the 0.9 margin
CoordNoMargin(half, t) == (half * Scale + half * ((t * 10) \div 9)) \div Scale

\* int(x) of the non-negative double half + half * 0.9 * ... (line 35/36);
\* ImageDraw.polygon truncates the float vertices to C ints.
Coord(half, t) == (half * Scale + half * t) \div Scale

Vertex(s, i) == <<Coord(s \div 2, CosTab[i + 1]), Coord(s \div 2, SinTab[i + 1])>>

points(s) == [k \in 1 .. steps |-> Vertex(s, k - 1)]

\* p lies on the closed segment a-b
OnSegment(a, b, p) ==
  /\ (b[1] - a[1]) * (p[2] - a[2]) = (b[2] - a[2]) * (p[1] - a[1])
  /\ (IF a[1] <= b[1] THEN a[1] <= p[1] /\ p[1] <= b[1] ELSE b[1] <= p[1] /\ p[1] <= a[1])
  /\ (IF a[2] <= b[2] THEN a[2] <= p[2] /\ p[2] <= b[2] ELSE b[2] <= p[2] /\ p[2] <= a[2])

\* the horizontal ray from p towards +x crosses the edge a-b
Crosses(a, b, p) ==
  /\ (a[2] > p[2]) # (b[2] > p[2])
  /\ IF b[2] > a[2]
       THEN (p[1] - a[1]) * (b[2] - a[2]) < (p[2] - a[2]) * (b[1] - a[1])
       ELSE (p[1] - a[1]) * (b[2] - a[2]) > (p[2] - a[2]) * (b[1] - a[1])

\* draw.polygon(points, fill=255): the closed polygon, boundary included
Filled(pts, p) ==
  LET n == Len(pts)
      nxt(k) == IF k = n THEN 1 ELSE k + 1
  IN  \/ \E k \in 1 .. n : OnSegment(pts[k], pts[nxt(k)], p)
      \/ Cardinality({k \in 1 .. n : Crosses(pts[k], pts[nxt(k)], p)}) % 2 = 1

create_squircle_mask(s) ==
  LET pts == points(s)
  IN  [p \in Pixels(s) |-> IF Filled(pts, p) THEN 255 ELSE 0]

RadiusFactors == {10, 22, 30, 50}


\* ----------------------------------------------------------- create_icon
orange == <<255, 149, 0>>
black == <<0, 0, 0>>
transparent == <<0, 0, 0, 0>>

bg_color(dark) == IF dark THEN black ELSE orange
text_color(dark) == IF dark THEN orange ELSE black

\* (*color, 255)
Opaque(c) == <<c[1], c[2], c[3], 255>>

font_paths ==
  << "/Library/Fonts/Bradley Hand Bold.ttf",
     "/System/Library/Fonts/Supplemental/Bradley Hand Bold.ttf",
     "/System/Library/Fonts/Bradley Hand Bold.ttf" >>

\* font = None
None == [path |-> "None", size |-> 0]

\* int(size * 0.45)
font_size(s) == (s * 45) \div 100

\* a loop that swallows nothing
CaughtNothing(exc) == FALSE

\* the exception classes the font loop swallows
Caught(exc) == exc \in {"OSError", "IOError"}

\* the mask test inverted
BackgroundInverted(s, dark, mask) ==
  [p \in Pixels(s) |-> IF mask[p] > Threshold THEN transparent
                                             ELSE Opaque(bg_color(dark))]

\* lines 66-75: a transparent canvas, painted where the mask is above the
\* threshold
Background(s, dark, mask) ==
  [p \in Pixels(s) |-> IF mask[p] > Threshold THEN Opaque(bg_color(dark))
                                             ELSE transparent]

\* the text bounding boxes (left, top, right, bottom) a font of pixel size fs
\* may report for the label; the metrics belong to the font file
BBoxes(fs) ==
  { <<b0, b1, b0 + w, b1 + h>> : b0 \in {0, 1}, b1 \in {0, 2},
                                 w \in {fs, fs + 3}, h \in {fs - 2, fs} }

\* lines 105-110
TextOrigin(s, bbox) ==
  LET text_width == bbox[3] - bbox[1]
      text_height == bbox[4] - bbox[2]
  IN  <<(s - text_width) \div 2, (s - text_height) \div 2 - bbox[2]>>

InkPatterns == {"solid", "sparse"}

\* the canvas pixels the glyphs of the label cover when drawn at origin o
Ink(s, bbox, o, pattern) ==
  { p \in Pixels(s) :
      /\ o[1] + bbox[1] <= p[1] /\ p[1] < o[1] + bbox[3]
      /\ o[2] + bbox[2] <= p[2] /\ p[2] < o[2] + bbox[4]
      /\ (pattern = "sparse" => (p[1] + p[2]) % 2 = 0) }

\* draw.text((x, y), text, fill=text_color, font=font)
DrawnText(image, ink, dark) ==
  [p \in DOMAIN image |-> IF p \in ink THEN Opaque(text_color(dark))
                                       ELSE image[p]]


\* ------------------------------------------------------------ the writers
ICON_SIZES ==
  << <<"16x16", "1x", 16>>,
     <<"16x16", "2x", 32>>,
     <<"32x32", "1x", 32>>,
     <<"32x32", "2x", 64>>,
     <<"128x128", "1x", 128>>,
     <<"128x128", "2x", 256>>,
     <<"256x256", "1x", 256>>,
     <<"256x256", "2x", 512>>,
     <<"512x512", "1x", 512>>,
     <<"512x512", "2x", 1024>> >>

\* a name that leaves the scale out
FilenameNoScale(size_str, scale) == <<"AppIcon-", size_str, ".png">>

\* f"AppIcon-{size_str}@{scale}.png"; a file name is the sequence of its parts
Filename(size_str, scale) == <<"AppIcon-", size_str, "@", scale, ".png">>

\* a pattern that only matches sized names, "AppIcon-*@*.png"
GlobMatchSized(name) ==
  /\ Len(name) = 5
  /\ name[1] = "AppIcon-"
  /\ name[3] = "@"
  /\ name[5] = ".png"

\* icon_dir.glob("AppIcon-*.png")
GlobMatch(name) ==
  /\ Len(name) >= 2
  /\ name[1] = "AppIcon-"
  /\ name[Len(name)] = ".png"

ContentsJson == <<"Contents.json">>

\* directory entries
NoImage == [pixels |-> 0, dark_mode |-> FALSE]
NoDoc == [images |-> <<>>, info |-> [author |-> "", version |-> 0]]
Directory == [kind |-> "dir", tag |-> "dir", run |-> 0, image |-> NoImage, doc |-> NoDoc]
OldFile == [kind |-> "file", tag |-> "old", run |-> 0, image |-> NoImage, doc |-> NoDoc]
Partial(r) == [kind |-> "file", tag |-> "partial", run |-> r, image |-> NoImage, doc |-> NoDoc]
\* icon.save(path, "PNG") of create_icon(pixels, dark_mode)
PngFile(r, pixels, dark) ==
  [kind |-> "file", tag |-> "png", run |-> r,
   image |-> [pixels |-> pixels, dark_mode |-> dark], doc |-> NoDoc]
JsonFile(r, d) == [kind |-> "file", tag |-> "json", run |-> r, image |-> NoImage, doc |-> d]

Put(dir, name, c) == [n \in DOMAIN dir \cup {name} |-> IF n = name THEN c ELSE dir[n]]
Remove(dir, name) == [n \in DOMAIN dir \ {name} |-> dir[n]]

\* an entry that names the file by its size alone
ImageEntryBySize(filename, scale, size_str) ==
  [filename |-> <<"AppIcon-", size_str, ".png">>, idiom |-> "mac",
   scale |-> scale, size |-> size_str]

\* lines 208-213
ImageEntry(filename, scale, size_str) ==
  [filename |-> filename, idiom |-> "mac", scale |-> scale, size |-> size_str]

\* lines 216-219
Contents(imgs) == [images |-> imgs, info |-> [author |-> "xcode", version |-> 1]]

\* lines 159-166
dark_layer ==
  [image_name |-> "icon-dark.png",
   name |-> "icon-dark",
   opacity_specializations |->
     << [value |-> 0], [appearance |-> "dark", value |-> 1] >>]

\* the light layer with the dark layer's specializations pasted in
light_layer_pasted ==
  [image_name |-> "icon-light.png",
   name |-> "icon-light",
   opacity_specializations |->
     << [value |-> 0], [appearance |-> "dark", value |-> 1] >>]

\* lines 167-174
light_layer ==
  [image_name |-> "icon-light.png",
   name |-> "icon-light",
   opacity_specializations |-> << [appearance |-> "dark", value |-> 0] >>]

\* lines 155-184
icon_json ==
  [groups |->
     << [layers |-> <<dark_layer, light_layer>>,
         shadow |-> [kind |-> "neutral", opacity |-> 50],
         translucency |-> [enabled |-> TRUE, value |-> 50]] >>,
   supported_platforms |-> [circles |-> <<"watchOS">>, squares |-> "shared"]]

IconJsonFile(r) == [kind |-> "file", tag |-> "json", run |-> r, doc |-> icon_json]
OldBundleFile == [kind |-> "file", tag |-> "old", run |-> 0, doc |-> <<>>]
PartialBundleFile(r) == [kind |-> "file", tag |-> "partial", run |-> r, doc |-> <<>>]
BundlePng(r, pixels, dark) ==
  [kind |-> "file", tag |-> "png", run |-> r, doc |-> <<pixels, dark>>]

\* line 241
RootContents(r) ==
  [tag |-> "json", run |-> r, doc |-> [info |-> [author |-> "xcode", version |-> 1]]]
NoRoot == [tag |-> "absent", run |-> 0, doc |-> [info |-> [author |-> "", version |-> 0]]]
PartialRoot(r) == [tag |-> "partial", run |-> r, doc |-> [info |-> [author |-> "", version |-> 0]]]

\* the opacity a layer has under an appearance ("default" or "dark"): the
\* entry for that appearance, else the entry without appearance, else the
\* implicit 1 (comments of lines 163-172)
Opacity(layer, appearance) ==
  LET specs == layer.opacity_specializations
      match == {k \in 1 .. Len(specs) :
                  /\ "appearance" \in DOMAIN specs[k]
                  /\ specs[k].appearance = appearance}
      dflt == {k \in 1 .. Len(specs) : "appearance" \notin DOMAIN specs[k]}
      first(S) == CHOOSE k \in S : \A j \in S : k <= j
  IN  IF match # {} THEN specs[first(match)].value
      ELSE IF dflt # {} THEN specs[first(dflt)].value
      ELSE ImplicitOpacity

\* the failed step is entered again
Retry(step) == step

\* an exception of a filesystem call is not handled anywhere: it leaves
\* main at once
Propagate(step) == "failed"

\* what a failed write (Image.save, write_text) may leave at its target:
\* nothing changed (the open failed) or a truncated file
FailedWrite(dir, name, broken) == {dir, Put(dir, name, broken)}

MainIdle ==
  /\ pc = "off" /\ run = 0 /\ error = "None" /\ completed = {}
  /\ dirs = {} /\ legacy = <<>> /\ todel = {} /\ row = 0 /\ images = <<>>
  /\ written = {} /\ deleted = {} /\ icon_dir = <<>> /\ assets = <<>>
  /\ bwritten = {} /\ root = NoRoot

MaskIdle ==
  /\ mpc = "off" /\ msize = 0 /\ mradius_factor = 22 /\ mradius = 0
  /\ mmask = <<>>

IconIdle ==
  /\ ipc = "off" /\ size = 0 /\ dark_mode = TRUE /\ resolvable = {}
  /\ squircle = <<>> /\ img = <<>> /\ font = None /\ font_idx = 0
  /\ tried = <<>> /\ iout = <<>> /\ glyph = {}

InitMask ==
  /\ mpc = "call"
  /\ msize \in 1 .. MaxMaskSize
  /\ mradius_factor \in RadiusFactors
  /\ mradius = 0
  /\ mmask = <<>>
  /\ IconIdle
  /\ MainIdle

MaskCall ==
  /\ mpc = "call"
  /\ mradius' = (msize * mradius_factor) \div 100
  /\ mmask' = create_squircle_mask(msize)
  /\ mpc' = "returned"
  /\ UNCHANGED <<msize, mradius_factor>>
  /\ UNCHANGED <<iconVars, mainVars>>

NextMask == MaskCall

SpecMask == InitMask /\ [][NextMask]_vars

InitIcon ==
  /\ ipc = "start"
  /\ size \in MinIconSize .. MaxIconSize
  /\ dark_mode \in BOOLEAN
  /\ resolvable \in SUBSET (1 .. Len(font_paths))
  /\ squircle = <<>> /\ img = <<>> /\ font = None /\ font_idx = 0
  /\ tried = <<>> /\ iout = <<>> /\ glyph = {}
  /\ MaskIdle
  /\ MainIdle

\* lines 51-87: colors, mask, background fill, font_size, font = None
ComposeBackground ==
  /\ ipc = "start"
  /\ squircle' = create_squircle_mask(size)
  /\ img' = Background(size, dark_mode, squircle')
  /\ font' = None
  /\ font_idx' = 1
  /\ ipc' = "fonts"
  /\ UNCHANGED <<size, dark_mode, resolvable, tried, iout, glyph>>
  /\ UNCHANGED <<maskVars, mainVars>>

\* lines 89-95: one iteration of the font loop
TryFont ==
  /\ ipc = "fonts"
  /\ font_idx <= Len(font_paths)
  /\ tried' = Append(tried, font_idx)
  /\ IF font_idx \in resolvable
       THEN /\ font' = [path |-> font_paths[font_idx], size |-> font_size(size)]
            /\ iout' = Append(iout, <<"Using font", font_paths[font_idx]>>)
            /\ ipc' = "loaded"
            /\ UNCHANGED font_idx
       ELSE IF Caught("OSError")
         THEN /\ font_idx' = font_idx + 1
              /\ UNCHANGED <<font, iout, ipc>>
         ELSE /\ ipc' = "raised"
              /\ UNCHANGED <<font, iout, font_idx>>
  /\ UNCHANGED <<size, dark_mode, resolvable, squircle, img, glyph>>
  /\ UNCHANGED <<maskVars, mainVars>>

\* the loop is left by break or by exhaustion
LoopExit ==
  /\ \/ ipc = "loaded"
     \/ ipc = "fonts" /\ font_idx > Len(font_paths)
  /\ ipc' = "checked"
  /\ UNCHANGED <<size, dark_mode, resolvable, squircle, img, font, font_idx,
                 tried, iout, glyph>>
  /\ UNCHANGED <<maskVars, mainVars>>

\* lines 97-99
LoadDefault ==
  /\ ipc = "checked"
  /\ font = None
  /\ iout' = Append(iout, <<"Warning", "Bradley Hand font not found, using default">>)
  /\ font' = [path |-> "default", size |-> DefaultFontSize]
  /\ ipc' = "text"
  /\ UNCHANGED <<size, dark_mode, resolvable, squircle, img, font_idx, tried, glyph>>
  /\ UNCHANGED <<maskVars, mainVars>>

FontFound ==
  /\ ipc = "checked"
  /\ font # None
  /\ ipc' = "text"
  /\ UNCHANGED <<size, dark_mode, resolvable, squircle, img, font, font_idx,
                 tried, iout, glyph>>
  /\ UNCHANGED <<maskVars, mainVars>>

\* lines 101-115
DrawText ==
  /\ ipc = "text"
  /\ \E bbox \in BBoxes(font.size), pattern \in InkPatterns :
       LET o == TextOrigin(size, bbox)
       IN  /\ glyph' = Ink(size, bbox, o, pattern)
           /\ img' = DrawnText(img, glyph', dark_mode)
  /\ ipc' = "done"
  /\ UNCHANGED <<size, dark_mode, resolvable, squircle, font, font_idx, tried, iout>>
  /\ UNCHANGED <<maskVars, mainVars>>

NextIcon ==
  \/ ComposeBackground
  \/ TryFont
  \/ LoopExit
  \/ LoadDefault
  \/ FontFound
  \/ DrawText

SpecIcon == InitIcon /\ [][NextIcon]_vars

\* ------------------------------------------------------------------ main
\* what an output directory may hold before the first run
StaleSized == <<"AppIcon-", "64x64", "@", "1x", ".png">>
StalePlain == <<"AppIcon-", "1024", ".png">>
StaleDir == <<"AppIcon-", "backup", ".png">>
Unrelated == <<"AppIcon", ".png">>
OldManifest == JsonFile(0, Contents(<<ImageEntry(StaleSized, "1x", "64x64")>>))

InitialEntries ==
  [n \in {StaleSized, StalePlain, StaleDir, Unrelated, ContentsJson} |->
     IF n = StaleDir THEN Directory
     ELSE IF n = ContentsJson THEN OldManifest
     ELSE OldFile]

Init ==
  /\ pc = "legacy_mkdir" /\ run = 1 /\ error = "None" /\ completed = {}
  /\ todel = {} /\ row = 0 /\ images = <<>>
  /\ written = {} /\ deleted = {} /\ bwritten = {}
  /\ dirs \in {{}, {"legacy"}, {"legacy", "icon", "assets"}}
  /\ \E names \in SUBSET DOMAIN InitialEntries :
       /\ ("legacy" \notin dirs => names = {})
       /\ legacy = [n \in names |-> InitialEntries[n]]
  /\ root \in IF "legacy" \in dirs THEN {NoRoot, RootContents(0)} ELSE {NoRoot}
  /\ \E stale \in IF "assets" \in dirs THEN BOOLEAN ELSE {FALSE} :
       /\ assets = IF stale THEN [n \in {"icon-tinted.png", "icon-dark.png"} |-> OldBundleFile]
                            ELSE <<>>
       /\ icon_dir = IF stale THEN [n \in {"icon.json"} |-> OldBundleFile] ELSE <<>>
  /\ MaskIdle
  /\ IconIdle

Raise(exc, step) ==
  /\ error' = exc
  /\ pc' = Propagate(step)

\* line 192
LegacyMkdir ==
  /\ pc = "legacy_mkdir"
  /\ \E ok \in BOOLEAN :
       IF ok THEN /\ dirs' = dirs \cup {"legacy"}
                  /\ pc' = "glob"
                  /\ UNCHANGED error
             ELSE /\ Raise("mkdir", "legacy_mkdir")
                  /\ UNCHANGED dirs
  /\ UNCHANGED <<run, completed, legacy, todel, row, images, written, deleted,
                 icon_dir, assets, bwritten, root>>
  /\ UNCHANGED <<maskVars, iconVars>>

\* line 195: the directory is listed once, when the loop starts
Glob ==
  /\ pc = "glob"
  /\ todel' = {n \in DOMAIN legacy : GlobMatch(n)}
  /\ pc' = "unlink"
  /\ UNCHANGED <<run, error, completed, dirs, legacy, row, images, written,
                 deleted, icon_dir, assets, bwritten, root>>
  /\ UNCHANGED <<maskVars, iconVars>>

\* lines 195-197: one iteration, in the order the listing gives
Unlink ==
  /\ pc = "unlink"
  /\ \E old_file \in todel, ok \in BOOLEAN :
       IF ok /\ legacy[old_file].kind = "file"
         THEN /\ legacy' = Remove(legacy, old_file)
              /\ deleted' = deleted \cup {old_file}
              /\ todel' = todel \ {old_file}
              /\ UNCHANGED <<pc, error>>
         ELSE /\ Raise("unlink", "unlink")
              /\ UNCHANGED <<legacy, deleted, todel>>
  /\ UNCHANGED <<run, completed, dirs, row, images, written, icon_dir, assets,
                 bwritten, root>>
  /\ UNCHANGED <<maskVars, iconVars>>

\* line 200
StartRender ==
  /\ pc = "unlink"
  /\ todel = {}
  /\ images' = <<>>
  /\ row' = 1
  /\ pc' = "render"
  /\ UNCHANGED <<run, error, completed, dirs, legacy, todel, written, deleted,
                 icon_dir, assets, bwritten, root>>
  /\ UNCHANGED <<maskVars, iconVars>>

\* lines 202-213: one table row
SaveIcon ==
  /\ pc = "render"
  /\ row <= Len(ICON_SIZES)
  /\ LET size_str == ICON_SIZES[row][1]
         scale == ICON_SIZES[row][2]
         pixels == ICON_SIZES[row][3]
         filename == Filename(size_str, scale)
     IN  \E ok \in BOOLEAN :
           IF ok
             THEN /\ legacy' = Put(legacy, filename, PngFile(run, pixels, TRUE))
                  /\ written' = written \cup {filename}
                  /\ images' = Append(images, ImageEntry(filename, scale, size_str))
                  /\ row' = row + 1
                  /\ UNCHANGED <<pc, error>>
             ELSE /\ legacy' \in FailedWrite(legacy, filename, Partial(run))
                  /\ Raise("save", "render")
                  /\ UNCHANGED <<written, images, row>>
  /\ UNCHANGED <<run, completed, dirs, todel, deleted, icon_dir, assets,
                 bwritten, root>>
  /\ UNCHANGED <<maskVars, iconVars>>

\* the manifest written one row early
WriteContentsEarly ==
  /\ pc = "render"
  /\ row >= Len(ICON_SIZES)
  /\ \E ok \in BOOLEAN :
       IF ok
         THEN /\ legacy' = Put(legacy, ContentsJson, JsonFile(run, Contents(images)))
              /\ completed' = completed \cup {"legacy"}
              /\ pc' = "icon_mkdir"
              /\ UNCHANGED error
         ELSE /\ legacy' \in FailedWrite(legacy, ContentsJson, Partial(run))
              /\ Raise("write", "render")
              /\ UNCHANGED completed
  /\ UNCHANGED <<run, dirs, todel, row, images, written, deleted, icon_dir,
                 assets, bwritten, root>>
  /\ UNCHANGED <<maskVars, iconVars>>

\* lines 215-221, and the return to main
WriteContents ==
  /\ pc = "render"
  /\ row > Len(ICON_SIZES)
  /\ \E ok \in BOOLEAN :
       IF ok
         THEN /\ legacy' = Put(legacy, ContentsJson, JsonFile(run, Contents(images)))
              /\ completed' = completed \cup {"legacy"}
              /\ pc' = "icon_mkdir"
              /\ UNCHANGED error
         ELSE /\ legacy' \in FailedWrite(legacy, ContentsJson, Partial(run))
              /\ Raise("write", "render")
              /\ UNCHANGED completed
  /\ UNCHANGED <<run, dirs, todel, row, images, written, deleted, icon_dir,
                 assets, bwritten, root>>
  /\ UNCHANGED <<maskVars, iconVars>>

\* line 143
IconMkdir ==
  /\ pc = "icon_mkdir"
  /\ \E ok \in BOOLEAN :
       IF ok THEN /\ dirs' = dirs \cup {"icon"}
                  /\ pc' = "assets_mkdir"
                  /\ UNCHANGED error
             ELSE /\ Raise("mkdir", "icon_mkdir")
                  /\ UNCHANGED dirs
  /\ UNCHANGED <<run, completed, legacy, todel, row, images, written, deleted,
                 icon_dir, assets, bwritten, root>>
  /\ UNCHANGED <<maskVars, iconVars>>

\* line 144
AssetsMkdir ==
  /\ pc = "assets_mkdir"
  /\ \E ok \in BOOLEAN :
       IF ok THEN /\ dirs' = dirs \cup {"assets"}
                  /\ pc' = "save_light"
                  /\ UNCHANGED error
             ELSE /\ Raise("mkdir", "assets_mkdir")
                  /\ UNCHANGED dirs
  /\ UNCHANGED <<run, completed, legacy, todel, row, images, written, deleted,
                 icon_dir, assets, bwritten, root>>
  /\ UNCHANGED <<maskVars, iconVars>>

\* lines 147 and 150
SaveLight ==
  /\ pc = "save_light"
  /\ \E ok \in BOOLEAN :
       IF ok
         THEN /\ assets' = Put(assets, "icon-light.png", BundlePng(run, 1024, FALSE))
              /\ bwritten' = bwritten \cup {<<"Assets", "icon-light.png">>}
              /\ pc' = "save_dark"
              /\ UNCHANGED error
         ELSE /\ assets' \in FailedWrite(assets, "icon-light.png", PartialBundleFile(run))
              /\ Raise("save", "save_light")
              /\ UNCHANGED bwritten
  /\ UNCHANGED <<run, completed, dirs, legacy, todel, row, images, written,
                 deleted, icon_dir, root>>
  /\ UNCHANGED <<maskVars, iconVars>>

\* lines 148 and 151
SaveDark ==
  /\ pc = "save_dark"
  /\ \E ok \in BOOLEAN :
       IF ok
         THEN /\ assets' = Put(assets, "icon-dark.png", BundlePng(run, 1024, TRUE))
              /\ bwritten' = bwritten \cup {<<"Assets", "icon-dark.png">>}
              /\ pc' = "icon_json"
              /\ UNCHANGED error
         ELSE /\ assets' \in FailedWrite(assets, "icon-dark.png", PartialBundleFile(run))
              /\ Raise("save", "save_dark")
              /\ UNCHANGED bwritten
  /\ UNCHANGED <<run, completed, dirs, legacy, todel, row, images, written,
                 deleted, icon_dir, root>>
  /\ UNCHANGED <<maskVars, iconVars>>

\* lines 155-187, and the return to main
WriteIconJson ==
  /\ pc = "icon_json"
  /\ \E ok \in BOOLEAN :
       IF ok
         THEN /\ icon_dir' = Put(icon_dir, "icon.json", IconJsonFile(run))
              /\ completed' = completed \cup {"bundle"}
              /\ pc' = "root"
              /\ UNCHANGED error
         ELSE /\ icon_dir' \in FailedWrite(icon_dir, "icon.json", PartialBundleFile(run))
              /\ Raise("write", "icon_json")
              /\ UNCHANGED completed
  /\ UNCHANGED <<run, dirs, legacy, todel, row, images, written, deleted,
                 assets, bwritten, root>>
  /\ UNCHANGED <<maskVars, iconVars>>

\* lines 240-243
WriteRoot ==
  /\ pc = "root"
  /\ \E ok \in BOOLEAN :
       IF ok
         THEN /\ root' = RootContents(run)
              /\ completed' = completed \cup {"main"}
              /\ pc' = "done"
              /\ UNCHANGED error
         ELSE /\ root' \in {root, PartialRoot(run)}
              /\ Raise("write", "root")
              /\ UNCHANGED completed
  /\ UNCHANGED <<run, dirs, legacy, todel, row, images, written, deleted,
                 icon_dir, assets, bwritten>>
  /\ UNCHANGED <<maskVars, iconVars>>

\* the script is invoked again on what the last run left
Rerun ==
  /\ pc = "done"
  /\ run < MaxRuns
  /\ run' = run + 1
  /\ pc' = "legacy_mkdir"
  /\ completed' = {}
  /\ todel' = {} /\ row' = 0 /\ images' = <<>>
  /\ written' = {} /\ deleted' = {} /\ bwritten' = {}
  /\ UNCHANGED <<error, fsVars>>
  /\ UNCHANGED <<maskVars, iconVars>>

Next ==
  \/ LegacyMkdir
  \/ Glob
  \/ Unlink
  \/ StartRender
  \/ SaveIcon
  \/ WriteContents
  \/ IconMkdir
  \/ AssetsMkdir
  \/ SaveLight
  \/ SaveDark
  \/ WriteIconJson
  \/ WriteRoot
  \/ Rerun

Spec == Init /\ [][Next]_vars

\* ---------------------------------------------------------------- claims
\* the naming convention and the table's names, spelled out for the claims
MatchesConvention(name) == name[1] = "AppIcon-" /\ name[Len(name)] = ".png"

TableFilenames ==
  {<<"AppIcon-", ICON_SIZES[i][1], "@", ICON_SIZES[i][2], ".png">> :
     i \in 1 .. Len(ICON_SIZES)}

\* C1: once generate_legacy_appiconset has returned, the Contents.json it
\* wrote lists one entry per ICON_SIZES row (10, in table order, idiom "mac",
\* the row's size and scale), the 10 filenames are pairwise distinct and each
\* of them is a file of the directory.
LegacyManifestComplete ==
  "legacy" \in completed =>
    /\ ContentsJson \in DOMAIN legacy
    /\ legacy[ContentsJson].tag = "json"
    /\ legacy[ContentsJson].run = run
    /\ LET im == legacy[ContentsJson].doc.images
       IN  /\ Len(im) = 10
           /\ Len(im) = Len(ICON_SIZES)
           /\ \A i \in 1 .. Len(im) :
                /\ im[i].idiom = "mac"
                /\ im[i].size = ICON_SIZES[i][1]
                /\ im[i].scale = ICON_SIZES[i][2]
                /\ im[i].filename \in DOMAIN legacy
                /\ legacy[im[i].filename].kind = "file"
           /\ \A i, j \in 1 .. Len(im) : i # j => im[i].filename # im[j].filename

LegacyManifestCompleteWitness ==
  /\ "legacy" \in completed
  /\ run = 1
  /\ StaleSized \in deleted
  /\ Unrelated \in DOMAIN legacy

\* C2: every deletion of a run precedes its first image write, and after
\* each completed run the files that match AppIcon-*.png are exactly the 10
\* names of the table, whatever the directory held before.
NoStaleAccumulation ==
  /\ []("legacy" \in completed =>
          {n \in DOMAIN legacy : MatchesConvention(n)} = TableFilenames)
  /\ [](Cardinality(TableFilenames) = 10)
  /\ [][deleted' \ deleted # {} => written = {} /\ written' = {}]_vars

NoStaleAccumulationWitness ==
  /\ run = 2
  /\ "legacy" \in completed
  /\ deleted = TableFilenames

\* C3: once create_icon_bundle has returned, exactly Assets/icon-light.png
\* and Assets/icon-dark.png were written, and icon.json has two layers with
\* exclusive opacity: dark layer 0 by default and 1 under "dark", light layer
\* 1 by default and 0 under "dark".
BundleLayersExclusive ==
  "bundle" \in completed =>
    /\ bwritten = {<<"Assets", "icon-light.png">>, <<"Assets", "icon-dark.png">>}
    /\ \A p \in bwritten : p[2] \in DOMAIN assets /\ assets[p[2]].tag = "png"
    /\ "icon.json" \in DOMAIN icon_dir
    /\ icon_dir["icon.json"].tag = "json"
    /\ LET layers == icon_dir["icon.json"].doc.groups[1].layers
       IN  /\ Len(icon_dir["icon.json"].doc.groups) = 1
           /\ Len(layers) = 2
           /\ \E d, l \in 1 .. 2 :
                /\ d # l
                /\ layers[d].image_name = "icon-dark.png"
                /\ layers[l].image_name = "icon-light.png"
                /\ Opacity(layers[d], "default") = 0
                /\ Opacity(layers[d], "dark") = 1
                /\ Opacity(layers[l], "default") = 1
                /\ Opacity(layers[l], "dark") = 0

BundleLayersExclusiveWitness ==
  /\ "bundle" \in completed
  /\ "icon-tinted.png" \in DOMAIN assets
  /\ icon_dir["icon.json"].run = run

\* C4: for both formats the manifest of a completed writer references
\* exactly the image files that run wrote.
ManifestMatchesWritten ==
  /\ "legacy" \in completed =>
       /\ {legacy[ContentsJson].doc.images[i].filename :
             i \in 1 .. Len(legacy[ContentsJson].doc.images)} = written
       /\ \A n \in written :
            /\ n \in DOMAIN legacy
            /\ legacy[n].tag = "png"
            /\ legacy[n].run = run
  /\ "bundle" \in completed =>
       /\ LET layers == icon_dir["icon.json"].doc.groups[1].layers
          IN  {layers[k].image_name : k \in 1 .. Len(layers)} =
                {p[2] : p \in bwritten}
       /\ \A p \in bwritten :
            /\ p[2] \in DOMAIN assets
            /\ assets[p[2]].tag = "png"
            /\ assets[p[2]].run = run

ManifestMatchesWrittenWitness ==
  /\ {"legacy", "bundle"} \subseteq completed
  /\ Cardinality(written) = 10
  /\ Cardinality(bwritten) = 2

\* C5: a failing filesystem call ends the run at that step: nothing runs
\* after it (no retry, no later write), and what the run had deleted or
\* written stays as it is; the failed call touches its own target at most.
ChangedNames(before, after) ==
  {n \in DOMAIN before \cup DOMAIN after :
     \/ n \notin DOMAIN before
     \/ n \notin DOMAIN after
     \/ before[n] # after[n]}

FailureIsFatal ==
  /\ [](error # "None" => pc = "failed")
  /\ [][error # "None" =>
          UNCHANGED <<fsVars, written, deleted, bwritten, images, completed>>]_vars
  /\ [][error = "None" /\ error' # "None" =>
          /\ UNCHANGED <<dirs, written, deleted, bwritten, images, completed>>
          /\ ChangedNames(legacy, legacy') \cap written = {}
          /\ \A n \in ChangedNames(legacy, legacy') : legacy'[n].tag = "partial"
          /\ \A n \in ChangedNames(assets, assets') :
               <<"Assets", n>> \notin bwritten /\ assets'[n].tag = "partial"
          /\ \A n \in ChangedNames(icon_dir, icon_dir') : icon_dir'[n].tag = "partial"
          /\ root' # root => root'.tag = "partial"]_vars

FailureIsFatalWitness ==
  /\ pc = "failed"
  /\ error = "save"
  /\ deleted # {}
  /\ written # {}
  /\ completed = {}

\* C6: the font used is the first resolvable candidate in list order and no
\* later one is tried; with none resolvable the default font is used and a
\* warning printed; create_icon is never aborted by a font that fails to load.
FirstOf(S) == CHOOSE k \in S : \A j \in S : k <= j

Warned == \E k \in 1 .. Len(iout) : iout[k][1] = "Warning"

FontFallbackOrder ==
  /\ ipc # "raised"
  /\ ipc \in {"text", "done"} =>
       IF resolvable # {}
         THEN /\ font.path = font_paths[FirstOf(resolvable)]
              /\ tried = [k \in 1 .. FirstOf(resolvable) |-> k]
              /\ ~Warned
         ELSE /\ font.path = "default"
              /\ tried = [k \in 1 .. Len(font_paths) |-> k]
              /\ Warned

FontFallbackOrderWitness ==
  /\ ipc = "done"
  /\ resolvable = {2, 3}
  /\ tried = <<1, 2>>

FontFallbackDefaultWitness ==
  /\ ipc = "done"
  /\ resolvable = {}
  /\ font.path = "default"

\* C7 as stated: for every size S > 0 the mask is S x S, its centre pixel is
\* 255 and one of its corner pixels is 0.
Corners(s) == {<<0, 0>>, <<0, s - 1>>, <<s - 1, 0>>, <<s - 1, s - 1>>}

CentreAndCorner(mask, s) ==
  /\ DOMAIN mask = Pixels(s)
  /\ \A p \in Pixels(s) : mask[p] \in 0 .. 255
  /\ mask[<<s \div 2, s \div 2>>] = 255
  /\ \E c \in Corners(s) : mask[c] = 0

MaskCentreAndCornerAnySize ==
  mpc = "returned" => CentreAndCorner(mmask, msize)

\* C7 amended: the same for every size S > 0 other than 1, 2, 4, 6 and 8,
\* the sizes whose truncated polygon reaches all four corners.
FullyCoveredSizes == {1, 2, 4, 6, 8}

MaskCentreAndCorner ==
  mpc = "returned" /\ msize \notin FullyCoveredSizes =>
    CentreAndCorner(mmask, msize)

MaskCentreAndCornerWitness ==
  /\ mpc = "returned"
  /\ msize = 10
  /\ mmask[<<5, 5>>] = 255
  /\ mmask[<<0, 0>>] = 0

\* C9: in the image create_icon builds, a pixel whose mask value is above 128
\* is the opaque background colour (black in dark mode, orange otherwise) and
\* every other pixel is transparent; the label is then drawn over it in the
\* opposite colour.
Painted(p) ==
  IF squircle[p] > 128
    THEN IF dark_mode THEN <<0, 0, 0, 255>> ELSE <<255, 149, 0, 255>>
    ELSE <<0, 0, 0, 0>>

Lettered == IF dark_mode THEN <<255, 149, 0, 255>> ELSE <<0, 0, 0, 255>>

CompositorPixels ==
  /\ ipc \in {"fonts", "loaded", "checked", "text"} =>
       /\ DOMAIN img = Pixels(size)
       /\ \A p \in Pixels(size) : img[p] = Painted(p)
  /\ ipc = "done" =>
       /\ DOMAIN img = Pixels(size)
       /\ \A p \in Pixels(size) :
            img[p] = IF p \in glyph THEN Lettered ELSE Painted(p)

CompositorPixelsWitness ==
  /\ ipc = "done"
  /\ dark_mode
  /\ glyph # {}
  /\ \E p \in Pixels(size) \ glyph : squircle[p] > 128
  /\ \E p \in Pixels(size) \ glyph : squircle[p] <= 128

\* C10: a Contents.json of the current run exists only once all 10 image
\* files of the run have been written, and the entries of a complete one all
\* name files that exist.
ManifestWrittenLast ==
  (/\ ContentsJson \in DOMAIN legacy
   /\ legacy[ContentsJson].run = run
   /\ legacy[ContentsJson].tag \in {"json", "partial"}) =>
    /\ written = TableFilenames
    /\ Cardinality(written) = 10
    /\ legacy[ContentsJson].tag = "json" =>
         \A i \in 1 .. Len(legacy[ContentsJson].doc.images) :
           /\ legacy[ContentsJson].doc.images[i].filename \in DOMAIN legacy
           /\ legacy[legacy[ContentsJson].doc.images[i].filename].tag = "png"

ManifestWrittenLastWitness ==
  /\ pc = "icon_mkdir"
  /\ run = 2
  /\ legacy[ContentsJson].run = run
  /\ legacy[ContentsJson].tag = "json"

====
